---- MODULE Spec2Model ----
(***************************************************************************)
(* f95-rss: a cron job ingests snapshots of a game catalogue into a SQLite *)
(* store (updateDatabase and the insert* functions) while an HTTP handler  *)
(* (serveFeed) renders the rows named by an allow-list file as feed items  *)
(* (readIDsFromFile, generateFeed, fetchDataFromDB).                       *)
(*                                                                         *)
(* One step of the model is one SQL statement, one HTTP fetch or one file  *)
(* read: SQLite executes each statement atomically, and the program opens  *)
(* no transaction around several of them.  log.Fatalf ends the process:    *)
(* exit records its message and nothing runs any more (the store stays).   *)
(***************************************************************************)
EXTENDS Integers, Sequences, FiniteSets, TLC

\* ---------------------------------------------------------------- bounds
MaxIngested == 2     \* entries the source returns, over all snapshots
MaxRequests == 1     \* GET /feed requests
MaxLines == 1        \* lines of the allow-list file
MaxClock == 2        \* seconds the clock may advance
MaxFileLines == 3    \* lines of the allow-list file when the read is checked

\* ------------------------------------------------------- input domains
Jobs == {"job1", "job2"}      \* the goroutines cron starts, one per firing
Reqs == {"req1"}              \* the goroutine net/http runs the handler in
Procs == Jobs \cup Reqs

ThreadIDs == {1, 2}
Titles == {"A", "B"}
Versions == {"1", "2"}
Creators == {"x", "y"}
CoverURLs == {"u", "v"}
ScreenLists == {<< >>, <<"s">>}
TagLists == {<< >>, <<7>>}
PrefixLists == {<< >>, <<3>>}
TzOffsets == {-1, 0, 1}       \* local time minus UTC, in clock units

\* F95DATA: one entry of the source's JSON snapshot.
F95DATA ==
    { f \in [ThreadID : ThreadIDs, Title : Titles, Version : Versions,
             Creator : Creators, Cover : CoverURLs, Screens : ScreenLists,
             Tags : TagLists, Prefixes : PrefixLists] :
        /\ f.Version = (IF f.Title = "A" THEN "1" ELSE "2")
        /\ f.Creator = (IF f.Title = "A" THEN "x" ELSE "y")
        /\ f.Cover = (IF f.Title = "A" THEN "u" ELSE "v")
        /\ f.Screens = (IF f.Title = "A" THEN << >> ELSE <<"s">>)
        /\ f.Tags = (IF f.Title = "A" THEN << >> ELSE <<7>>)
        /\ f.Prefixes = (IF f.Title = "A" THEN << >> ELSE <<3>>) }

SeqsUpTo(S, n) == UNION { [1..k -> S] : k \in 0..n }

\* The value of the loop variable f outside updateDatabase's loop.
NoEntry == [ThreadID |-> 0]

VARIABLES
    exit,       \* "" while the process runs, else the log.Fatalf that ended it
    clock,      \* SQLite's current_timestamp (UTC)
    tz,         \* the host's local-time offset
    creator,    \* table creator: rows [id, name]
    game,       \* table game: rows [id, title, version, created, updated, creator_id]
    cover,      \* table cover: rows [id, url, game_id]
    preview,    \* table preview: rows [id, url, game_id]
    tags,       \* table tags: rows <<game_id, tag_id>>
    prefixes,   \* table prefixes: rows <<game_id, prefix_id>>
    pc,         \* each goroutine's position
    ndata,      \* job: len(data.Msg.Data) of the snapshot getData returned
    eidx,       \* job: index of the entry updateDatabase is at
    f,          \* job: the entry at that index (the loop variable f)
    sub,        \* job: index in the entry's Screens / Tags / Prefixes loop
    creatorID,  \* job: the id insertCreator returned
    ids,        \* the ids readIDsFromFile returned
    iidx,       \* index of the id fetchDataFromDB is at
    row,        \* the game row fetchDataFromDB scanned
    items,      \* the items fetchDataFromDB has built
    resp,       \* request: the status codes written, in order
    ingested,   \* entries the source has returned so far
    requests,   \* requests received so far
    written,    \* history: the <<id, title, version>> insertGame has committed
    lastWrite,  \* history: the last insertGame statement and the row it found
    lastRead    \* history: the last readIDsFromFile call and what it returned

env == <<clock, tz>>
store == <<creator, game, cover, preview, tags, prefixes>>
jobvars == <<ndata, eidx, f, sub, creatorID>>
feedvars == <<ids, iidx, row, items>>
counters == <<ingested, requests>>
history == <<written, lastWrite, lastRead>>
vars == <<exit, clock, tz, creator, game, cover, preview, tags, prefixes,
          pc, ndata, eidx, f, sub, creatorID, ids, iidx, row, items, resp,
          ingested, requests, written, lastWrite, lastRead>>

NoRow == [id |-> 0]
NoWrite == [id |-> 0]
NoRead == [called |-> FALSE]

Init ==
    /\ exit = ""
    /\ clock = 0
    /\ tz \in TzOffsets
    /\ creator = {} /\ game = {} /\ cover = {}
    /\ preview = {} /\ tags = {} /\ prefixes = {}
    /\ pc = [p \in Procs |-> "idle"]
    /\ ndata = [p \in Procs |-> 0]
    /\ eidx = [p \in Procs |-> 0]
    /\ f = [p \in Procs |-> NoEntry]
    /\ sub = [p \in Procs |-> 0]
    /\ creatorID = [p \in Procs |-> 0]
    /\ ids = [p \in Procs |-> << >>]
    /\ iidx = [p \in Procs |-> 0]
    /\ row = [p \in Procs |-> NoRow]
    /\ items = [p \in Procs |-> << >>]
    /\ resp = [p \in Procs |-> << >>]
    /\ ingested = 0
    /\ requests = 0
    /\ written = {}
    /\ lastWrite = NoWrite
    /\ lastRead = NoRead

\* --------------------------------------------------------------- store
SetMax(S) == CHOOSE m \in S : \A x \in S : x <= m

\* integer primary key autoincrement: a new row takes the next larger id.
NextRowID(tbl) == IF tbl = {} THEN 1 ELSE SetMax({r.id : r \in tbl}) + 1

\* A plain insert into a creator table whose name is not unique.
creatorInsert(tbl, name) == tbl \cup {[id |-> NextRowID(tbl), name |-> name]}

\* INSERT INTO creator (name) VALUES (?) ON CONFLICT (name) DO UPDATE SET
\* name = name: name is unique, a second insert of it leaves the row as it is.
creatorUpsert(tbl, name) ==
    IF \E c \in tbl : c.name = name
    THEN tbl
    ELSE tbl \cup {[id |-> NextRowID(tbl), name |-> name]}

\* A statement returning the id an insert would take next, the id of no row.
creatorReturningNext(tbl, name) == NextRowID(tbl)

\* RETURNING id: the id of the row the statement inserted or updated.
creatorReturning(tbl, name) == (CHOOSE c \in tbl : c.name = name).id

\* The schema without the trigger: an update leaves updated as it was.
update_timestampMissing(tbl, id, now) == tbl

\* trigger update_timestamp, after update on game:
\* update game set updated = current_timestamp where id = old.id
update_timestamp(tbl, id, now) ==
    { IF g.id = id THEN [g EXCEPT !.updated = now] ELSE g : g \in tbl }

\* An upsert whose conflict clause leaves out version = excluded.version.
gameUpsertKeepsVersion(tbl, id, title, version, cid, now, offset) ==
    IF \E g \in tbl : g.id = id
    THEN update_timestamp(
             { IF g.id = id
               THEN [g EXCEPT !.title = title, !.creator_id = cid]
               ELSE g : g \in tbl },
             id, now)
    ELSE tbl \cup {[id |-> id, title |-> title, version |-> version,
                    created |-> now + offset, updated |-> now + offset,
                    creator_id |-> cid]}

\* insert into game (id, title, version, creator_id) values (?, ?, ?, ?)
\* on conflict (id) do update set title, version, creator_id = excluded.*
\* A new row takes the column defaults datetime(current_timestamp,
\* 'localtime') for created and updated; an update fires the trigger.
gameUpsert(tbl, id, title, version, cid, now, offset) ==
    IF \E g \in tbl : g.id = id
    THEN update_timestamp(
             { IF g.id = id
               THEN [g EXCEPT !.title = title, !.version = version,
                              !.creator_id = cid]
               ELSE g : g \in tbl },
             id, now)
    ELSE tbl \cup {[id |-> id, title |-> title, version |-> version,
                    created |-> now + offset, updated |-> now + offset,
                    creator_id |-> cid]}

\* insert or replace into cover / preview: the row holding the url is
\* deleted and a new row is inserted.
urlInsertOrReplace(tbl, url, gameID) ==
    {c \in tbl : c.url # url}
        \cup {[id |-> NextRowID(tbl), url |-> url, game_id |-> gameID]}

\* A plain insert into a url table whose url is not unique.
urlInsert(tbl, url, gameID) ==
    tbl \cup {[id |-> NextRowID(tbl), url |-> url, game_id |-> gameID]}

\* insert or ignore into cover / preview (url, game_id): url is unique over
\* the whole table, a url already stored is ignored.
urlInsertOrIgnore(tbl, url, gameID) ==
    IF \E c \in tbl : c.url = url
    THEN tbl
    ELSE tbl \cup {[id |-> NextRowID(tbl), url |-> url, game_id |-> gameID]}

\* insert or ignore into tags / prefixes: (game_id, x) is the primary key.
pairInsertOrIgnore(tbl, gameID, x) == tbl \cup {<<gameID, x>>}

\* ------------------------------------------------------------- process
\* The process runs until a log.Fatalf.
alive == exit = ""

\* log.Fatalf(msg): the process exits; no goroutine takes another step.
Fatal(msg) ==
    /\ exit' = msg
    /\ UNCHANGED <<env, store, pc, jobvars, feedvars, resp, counters, history>>

\* for _, f := range data.Msg.Data: the loop binds f to the entry at index i.
\* The snapshot is read by this loop alone, entry by entry, so the entry is
\* drawn when the loop reaches it.
LoopHead(j, i) ==
    /\ eidx' = [eidx EXCEPT ![j] = i]
    /\ \E e \in F95DATA : f' = [f EXCEPT ![j] = e]
    /\ pc' = [pc EXCEPT ![j] = "insertCreator"]
    /\ sub' = [sub EXCEPT ![j] = 0]

\* updateDatabase's loop body after the statement at stage k of the entry
\* (0 insertCover, 1 insertPreview, 2 insertTags, 3 insertPrefixes): the next
\* statement is the first of a later non-empty list, else the next entry's
\* insertCreator, else updateDatabase returns to the cron function.
NextStatement(j, k) ==
    IF k < 1 /\ f[j].Screens # << >> THEN
        /\ pc' = [pc EXCEPT ![j] = "insertPreview"]
        /\ sub' = [sub EXCEPT ![j] = 1]
        /\ UNCHANGED <<eidx, f>>
    ELSE IF k < 2 /\ f[j].Tags # << >> THEN
        /\ pc' = [pc EXCEPT ![j] = "insertTags"]
        /\ sub' = [sub EXCEPT ![j] = 1]
        /\ UNCHANGED <<eidx, f>>
    ELSE IF k < 3 /\ f[j].Prefixes # << >> THEN
        /\ pc' = [pc EXCEPT ![j] = "insertPrefixes"]
        /\ sub' = [sub EXCEPT ![j] = 1]
        /\ UNCHANGED <<eidx, f>>
    ELSE IF eidx[j] < ndata[j] THEN
        LoopHead(j, eidx[j] + 1)
    ELSE
        /\ pc' = [pc EXCEPT ![j] = "readIDs"]
        /\ sub' = [sub EXCEPT ![j] = 0]
        /\ eidx' = [eidx EXCEPT ![j] = 0]
        /\ f' = [f EXCEPT ![j] = NoEntry]

\* A statement of a range loop over list: the next element, or NextStatement.
LoopStatement(j, k, list) ==
    IF sub[j] < Len(list)
    THEN /\ sub' = [sub EXCEPT ![j] = @ + 1]
         /\ UNCHANGED <<pc, eidx, f>>
    ELSE NextStatement(j, k)

\* Goroutines have no identity: the firings take them in this order.
JobOrder == <<"job1", "job2">>
IsNextJob(j) ==
    \E i \in 1..Len(JobOrder) :
        /\ JobOrder[i] = j
        /\ \A k \in 1..(i - 1) : pc[JobOrder[k]] # "idle"

\* cron.New() with no job wrapper: every firing of the schedule runs the
\* function in a goroutine of its own, whether or not an earlier one returned.
cronFire(j) ==
    /\ alive /\ pc[j] = "idle" /\ IsNextJob(j)
    /\ pc' = [pc EXCEPT ![j] = "getData"]
    /\ UNCHANGED <<exit, env, store, jobvars, feedvars, resp, counters, history>>

\* getData: http.Get and the JSON decode; either failing is log.Fatalf.
\* http.Get uses http.DefaultClient, whose Timeout is zero: while the source
\* holds the connection open and sends nothing, the call does not return.
getData(j) ==
    /\ alive /\ pc[j] = "getData"
    /\ \/ Fatal("getData: Failed to create table")
       \/ /\ pc' = [pc EXCEPT ![j] = "blocked"]
          /\ UNCHANGED <<exit, env, store, jobvars, feedvars, resp, counters,
                         history>>
       \/ \E n \in 0..(MaxIngested - ingested) :
            /\ ndata' = [ndata EXCEPT ![j] = n]
            /\ ingested' = ingested + n
            /\ IF n = 0
               THEN /\ pc' = [pc EXCEPT ![j] = "readIDs"]
                    /\ UNCHANGED <<eidx, f, sub>>
               ELSE LoopHead(j, 1)
            /\ UNCHANGED <<exit, env, store, creatorID, feedvars, resp,
                           requests, history>>

insertCreator(j) ==
    /\ alive /\ pc[j] = "insertCreator"
    /\ \/ Fatal("failed to insert creator")
       \/ /\ creator' = creatorUpsert(creator, f[j].Creator)
          /\ creatorID' = [creatorID EXCEPT
                             ![j] = creatorReturning(creator', f[j].Creator)]
          /\ pc' = [pc EXCEPT ![j] = "insertGame"]
          /\ UNCHANGED <<exit, env, game, cover, preview, tags, prefixes,
                         ndata, eidx, f, sub, feedvars, resp, counters, history>>

insertGame(j) ==
    /\ alive /\ pc[j] = "insertGame"
    /\ \/ Fatal("failed to insert game")
       \/ /\ game' = gameUpsert(game, f[j].ThreadID, f[j].Title, f[j].Version,
                                creatorID[j], clock, tz)
          /\ written' = written \cup {<<f[j].ThreadID, f[j].Title, f[j].Version>>}
          /\ lastWrite' = [id |-> f[j].ThreadID, title |-> f[j].Title,
                           version |-> f[j].Version,
                           creator_id |-> creatorID[j], at |-> clock,
                           cover |-> f[j].Cover,
                           old |-> {g \in game : g.id = f[j].ThreadID}]
          /\ pc' = [pc EXCEPT ![j] = "insertCover"]
          /\ UNCHANGED <<exit, env, creator, cover, preview, tags, prefixes,
                         jobvars, feedvars, resp, counters, lastRead>>

insertCover(j) ==
    /\ alive /\ pc[j] = "insertCover"
    /\ \/ Fatal("failed to insert cover")
       \/ /\ cover' = urlInsertOrIgnore(cover, f[j].Cover, f[j].ThreadID)
          /\ NextStatement(j, 0)
          /\ UNCHANGED <<exit, env, creator, game, preview, tags, prefixes,
                         ndata, creatorID, feedvars, resp, counters, history>>

insertPreview(j) ==
    /\ alive /\ pc[j] = "insertPreview"
    /\ \/ Fatal("failed to insert preview")
       \/ /\ preview' = urlInsertOrIgnore(preview, f[j].Screens[sub[j]],
                                          f[j].ThreadID)
          /\ LoopStatement(j, 1, f[j].Screens)
          /\ UNCHANGED <<exit, env, creator, game, cover, tags, prefixes,
                         ndata, creatorID, feedvars, resp, counters, history>>

insertTags(j) ==
    /\ alive /\ pc[j] = "insertTags"
    /\ \/ Fatal("failed to insert Tags")
       \/ /\ tags' = pairInsertOrIgnore(tags, f[j].ThreadID, f[j].Tags[sub[j]])
          /\ LoopStatement(j, 2, f[j].Tags)
          /\ UNCHANGED <<exit, env, creator, game, cover, preview, prefixes,
                         ndata, creatorID, feedvars, resp, counters, history>>

insertPrefixes(j) ==
    /\ alive /\ pc[j] = "insertPrefixes"
    /\ \/ Fatal("failed to insert Prefixes")
       \/ /\ prefixes' = pairInsertOrIgnore(prefixes, f[j].ThreadID,
                                            f[j].Prefixes[sub[j]])
          /\ LoopStatement(j, 3, f[j].Prefixes)
          /\ UNCHANGED <<exit, env, creator, game, cover, preview, tags,
                         ndata, creatorID, feedvars, resp, counters, history>>

\* ---------------------------------------------------------- allow-list
\* A line of the file is a sequence of characters.
Lines == {<< >>, <<"1">>, <<" ", "2">>, <<"x">>}
Files == SeqsUpTo(Lines, MaxLines)

IsSpace(c) == c \in {" ", "\t", "\r"}

RECURSIVE TrimLeft(_)
TrimLeft(s) ==
    IF s # << >> /\ IsSpace(Head(s)) THEN TrimLeft(Tail(s)) ELSE s

RECURSIVE TrimRight(_)
TrimRight(s) ==
    IF s # << >> /\ IsSpace(s[Len(s)])
    THEN TrimRight(SubSeq(s, 1, Len(s) - 1))
    ELSE s

\* strings.TrimSpace
TrimSpace(s) == TrimRight(TrimLeft(s))

DigitChars == <<"0", "1", "2", "3", "4", "5", "6", "7", "8", "9">>
IsDigit(c) == \E i \in 1..Len(DigitChars) : DigitChars[i] = c
DigitValue(c) == (CHOOSE i \in 1..Len(DigitChars) : DigitChars[i] = c) - 1

RECURSIVE DecimalValue(_, _)
DecimalValue(s, acc) ==
    IF s = << >> THEN acc
    ELSE DecimalValue(Tail(s), acc * 10 + DigitValue(Head(s)))

\* strconv.Atoi: an optional sign and one or more decimal digits.
Atoi(s) ==
    LET signed == s # << >> /\ Head(s) \in {"+", "-"}
        digits == IF signed THEN Tail(s) ELSE s
    IN  IF digits = << >> \/ \E i \in 1..Len(digits) : ~IsDigit(digits[i])
        THEN [ok |-> FALSE, n |-> 0]
        ELSE [ok |-> TRUE,
              n |-> IF signed /\ Head(s) = "-"
                    THEN 0 - DecimalValue(digits, 0)
                    ELSE DecimalValue(digits, 0)]

\* A scanner loop that skips a line that is not an integer.
RECURSIVE ScanLinesSkipping(_, _)
ScanLinesSkipping(lines, acc) ==
    IF lines = << >> THEN [err |-> FALSE, ids |-> acc]
    ELSE LET line == TrimSpace(Head(lines)) IN
         IF line = << >> \/ ~Atoi(line).ok
         THEN ScanLinesSkipping(Tail(lines), acc)
         ELSE ScanLinesSkipping(Tail(lines), Append(acc, Atoi(line).n))

\* readIDsFromFile's scanner loop over the lines left, ids being those read.
RECURSIVE ScanLines(_, _)
ScanLines(lines, acc) ==
    IF lines = << >> THEN [err |-> FALSE, ids |-> acc]
    ELSE LET line == TrimSpace(Head(lines)) IN
         IF line = << >> THEN ScanLines(Tail(lines), acc)
         ELSE IF ~Atoi(line).ok THEN [err |-> TRUE, ids |-> << >>]
         ELSE ScanLines(Tail(lines), Append(acc, Atoi(line).n))

\* The result of readIDsFromFile on a file that could be opened.
readIDs(file) == ScanLines(file, << >>)

\* What readIDsFromFile may return: os.Open fails, or the file is scanned.
ReadResults ==
    {[err |-> TRUE, ids |-> << >>]} \cup {readIDs(file) : file \in Files}

\* The files of the check of the read: longer, with a whitespace-only line.
LongFiles == SeqsUpTo(Lines \cup {<<" ", "\t">>}, MaxFileLines)

\* A call of readIDsFromFile: os.Open fails, or the file holds these lines.
Opens(files) ==
    {[opened |-> FALSE, lines |-> << >>]}
        \cup {[opened |-> TRUE, lines |-> file] : file \in files}

\* What the call returns.
readResult(o) ==
    IF o.opened THEN readIDs(o.lines) ELSE [err |-> TRUE, ids |-> << >>]

\* ---------------------------------------------------------------- feed
\* The Item fetchDataFromDB builds from a game row and its cover url.
Item(g, coverURL) ==
    [Title |-> g.title \o " [" \o g.version \o "]",
     Link |-> "https://f95zone.to/threads/" \o ToString(g.id),
     Description |-> "<img src=\"" \o coverURL \o "\" alt=\"" \o g.title \o "\" />",
     PubDate |-> g.updated]

\* select url from cover where game_id = ? order by id desc limit 1
coverRows(tbl, gameID) == {c \in tbl : c.game_id = gameID}
coverQuery(tbl, gameID) ==
    (CHOOSE c \in coverRows(tbl, gameID) :
        \A d \in coverRows(tbl, gameID) : d.id <= c.id).url

\* The function the goroutine runs returns: the handler has written its
\* response (the status code; the body of a 200 is the items), the cron
\* function has dropped the feed it built.
Return(p, code, body) ==
    /\ pc' = [pc EXCEPT ![p] = IF p \in Reqs THEN "idle" ELSE "done"]
    /\ items' = [items EXCEPT ![p] = IF p \in Reqs THEN body ELSE << >>]
    /\ iidx' = [iidx EXCEPT ![p] = 0]
    /\ row' = [row EXCEPT ![p] = NoRow]
    /\ resp' = IF p \in Reqs THEN [resp EXCEPT ![p] = Append(@, code)] ELSE resp

\* fetchDataFromDB's loop goes on with the next id, or returns its items.
Continue(p, its) ==
    IF iidx[p] < Len(ids[p])
    THEN /\ iidx' = [iidx EXCEPT ![p] = @ + 1]
         /\ items' = [items EXCEPT ![p] = its]
         /\ row' = [row EXCEPT ![p] = NoRow]
         /\ pc' = [pc EXCEPT ![p] = "queryGame"]
         /\ UNCHANGED resp
    ELSE Return(p, 200, its)

\* net/http runs serveFeed's handler for a request in a goroutine of its own.
serveFeed(r) ==
    /\ alive /\ pc[r] = "idle" /\ requests < MaxRequests
    /\ requests' = requests + 1
    /\ pc' = [pc EXCEPT ![r] = "readIDs"]
    /\ ids' = [ids EXCEPT ![r] = << >>]
    /\ items' = [items EXCEPT ![r] = << >>]
    /\ UNCHANGED <<exit, env, store, jobvars, iidx, row, resp, ingested, history>>

\* readIDsFromFile(IDFILE), then the start of generateFeed.  An error is
\* log.Fatalf in the cron function and a 500 in the handler.  The file is
\* read anew by every call: it is one of files when the call opens it.
readIDsFrom(p, files) ==
    /\ alive /\ pc[p] = "readIDs"
    /\ \E o \in Opens(files) :
         LET r == readResult(o) IN
         /\ lastRead' = [called |-> TRUE, opened |-> o.opened,
                         lines |-> o.lines, err |-> r.err, ids |-> r.ids]
         /\ IF r.err
            THEN IF p \in Jobs
                 THEN /\ exit' = "Error reading IDs"
                      /\ UNCHANGED <<env, store, pc, jobvars, feedvars, resp,
                                     counters, written, lastWrite>>
                 ELSE /\ Return(p, 500, << >>)
                      /\ UNCHANGED <<exit, env, store, jobvars, ids, counters,
                                     written, lastWrite>>
            ELSE /\ ids' = [ids EXCEPT ![p] = r.ids]
                 /\ IF r.ids = << >>
                    THEN Return(p, 200, << >>)
                    ELSE /\ pc' = [pc EXCEPT ![p] = "queryGame"]
                         /\ iidx' = [iidx EXCEPT ![p] = 1]
                         /\ items' = [items EXCEPT ![p] = << >>]
                         /\ UNCHANGED <<row, resp>>
                 /\ UNCHANGED <<exit, env, store, jobvars, counters,
                                written, lastWrite>>

readIDsFromFile(p) == readIDsFrom(p, Files)

\* SELECT id, title, version, updated FROM game WHERE id = ?
\* sql.ErrNoRows skips the id; any other error ends fetchDataFromDB with the
\* error (a 500 in the handler, a log line in the cron function).
queryGame(p) ==
    /\ alive /\ pc[p] = "queryGame"
    /\ \/ Return(p, 500, << >>)
       \/ /\ ~\E g \in game : g.id = ids[p][iidx[p]]
          /\ Continue(p, items[p])
       \/ \E g \in game :
            /\ g.id = ids[p][iidx[p]]
            /\ row' = [row EXCEPT ![p] = g]
            /\ pc' = [pc EXCEPT ![p] = "queryCover"]
            /\ UNCHANGED <<iidx, items, resp>>
    /\ UNCHANGED <<exit, env, store, jobvars, ids, counters, history>>

\* A cover lookup that stores a placeholder cover for a game that has none.
queryCoverStoring(p) ==
    /\ alive /\ pc[p] = "queryCover"
    /\ \/ Fatal("Failed to get the coverURL: store error")
       \/ /\ cover' = IF coverRows(cover, row[p].id) = {}
                       THEN urlInsertOrIgnore(cover, "", row[p].id)
                       ELSE cover
          /\ Continue(p, Append(items[p], Item(row[p], coverQuery(cover', row[p].id))))
          /\ UNCHANGED <<exit, env, creator, game, preview, tags, prefixes,
                         jobvars, ids, counters, history>>

\* select url from cover ...: any error, sql.ErrNoRows included, is
\* log.Fatalf; else the item is appended.
queryCover(p) ==
    /\ alive /\ pc[p] = "queryCover"
    /\ \/ Fatal("Failed to get the coverURL: store error")
       \/ /\ coverRows(cover, row[p].id) = {}
          /\ Fatal("Failed to get the coverURL: no rows")
       \/ /\ coverRows(cover, row[p].id) # {}
          /\ Continue(p, Append(items[p], Item(row[p], coverQuery(cover, row[p].id))))
          /\ UNCHANGED <<exit, env, store, jobvars, ids, counters, history>>

\* ------------------------------------------- the RSS ingestion (main.go)
\* The version of the program that ingests the source's RSS feed into one
\* table game (id, name, version, creator, published, imageUrl).  A link is
\* what url.Parse makes of it: an error, or the characters of its path.
LinkPaths ==
    {<<"/", "t", "/", "1">>, <<"/", "t", "/", "2", "/">>,
     <<"/", "t", "/", "x">>, << >>}
ItemLinks ==
    {[ok |-> FALSE, path |-> << >>]}
        \cup {[ok |-> TRUE, path |-> q] : q \in LinkPaths}
ItemTitles ==
    {<<"]", " ", "A", " ", "[", "1", "]">>,
     <<"[", "V", "]", " ", "B", " ", "[", "2", "]">>,
     <<"A">>}

\* gofeed.Item, with the fields parseData reads; the creator, the date and
\* the image are present.
FeedItems ==
    [Link : ItemLinks, Title : ItemTitles, Creator : {"x"}, Published : {0},
     Image : {"u"}]

\* The characters of s as a string.
RECURSIVE Join(_)
Join(s) == IF s = << >> THEN "" ELSE Head(s) \o Join(Tail(s))

\* path.Base: the last element of the path, trailing slashes removed; "."
\* for the empty path and "/" for a path of slashes only.
RECURSIVE StripSlashes(_)
StripSlashes(s) ==
    IF s # << >> /\ s[Len(s)] = "/"
    THEN StripSlashes(SubSeq(s, 1, Len(s) - 1))
    ELSE s

RECURSIVE LastElement(_)
LastElement(s) ==
    IF s = << >> \/ s[Len(s)] = "/" THEN << >>
    ELSE Append(LastElement(SubSeq(s, 1, Len(s) - 1)), s[Len(s)])

PathBase(s) ==
    IF s = << >> THEN <<".">>
    ELSE IF StripSlashes(s) = << >> THEN <<"/">>
    ELSE LastElement(StripSlashes(s))

\* The matches of \] (?<name>.*?) \[(?<version>.+)\] in s: the index of
\* the first "]", of the blank before "[", and of the last "]".
TitleMatches(s) ==
    {m \in (1..Len(s)) \X (1..Len(s)) \X (1..Len(s)) :
        /\ m[1] + 2 <= m[2] /\ m[2] + 3 <= m[3]
        /\ s[m[1]] = "]" /\ s[m[1] + 1] = " "
        /\ s[m[2]] = " " /\ s[m[2] + 1] = "["
        /\ s[m[3]] = "]"}

\* FindStringSubmatch: the leftmost match, its name the shortest (.*?) and
\* its version the longest (.+).
TitleMatch(s) ==
    CHOOSE m \in TitleMatches(s) :
        \A n \in TitleMatches(s) :
            \/ m[1] < n[1]
            \/ m[1] = n[1] /\ m[2] < n[2]
            \/ m[1] = n[1] /\ m[2] = n[2] /\ m[3] >= n[3]

\* parseData: a link url.Parse rejects leaves parsedURL nil, and a title
\* the expression does not match leaves matches nil: reading either is a
\* runtime panic.  An Atoi error is logged and id keeps its zero value.
parseData(data) ==
    IF ~data.Link.ok THEN [panic |-> TRUE]
    ELSE IF TitleMatches(data.Title) = {} THEN [panic |-> TRUE]
    ELSE LET a == Atoi(PathBase(data.Link.path))
             m == TitleMatch(data.Title)
         IN  [panic |-> FALSE,
              id |-> IF a.ok THEN a.n ELSE 0,
              name |-> Join(SubSeq(data.Title, m[1] + 2, m[2] - 1)),
              version |-> Join(SubSeq(data.Title, m[2] + 2, m[3] - 1)),
              creator |-> data.Creator,
              publisher |-> data.Published,
              imageUrl |-> data.Image]

\* insert or replace into game values (?, ?, ?, ?, ?, ?): the row of the id
\* is replaced.
gameInsertOrReplace(tbl, g) ==
    {r \in tbl : r.id # g.id}
        \cup {[id |-> g.id, name |-> g.name, version |-> g.version,
                creator |-> g.creator, published |-> g.publisher,
                imageUrl |-> g.imageUrl]}

\* for _, f := range feed.Items: the loop binds f to the item at index i.
ItemLoopHead(j, i) ==
    /\ eidx' = [eidx EXCEPT ![j] = i]
    /\ \E e \in FeedItems : f' = [f EXCEPT ![j] = e]
    /\ pc' = [pc EXCEPT ![j] = "insertOrReplace"]

\* The cron function of main.go starts in a goroutine of its own.
cronFireFeed(j) ==
    /\ alive /\ pc[j] = "idle" /\ IsNextJob(j)
    /\ pc' = [pc EXCEPT ![j] = "getFeed"]
    /\ UNCHANGED <<exit, env, store, jobvars, feedvars, resp, counters, history>>

\* getFeed: the fetch and parse of the feed, bounded by a context of 60
\* seconds; an error, the expiry included, is log.Fatalf.
getFeed(j) ==
    /\ alive /\ pc[j] = "getFeed"
    /\ \/ Fatal("getFeed: Error checking database file")
       \/ \E n \in 0..(MaxIngested - ingested) :
            /\ ndata' = [ndata EXCEPT ![j] = n]
            /\ ingested' = ingested + n
            /\ IF n = 0
               THEN /\ pc' = [pc EXCEPT ![j] = "readIDs"]
                    /\ UNCHANGED <<eidx, f>>
               ELSE ItemLoopHead(j, 1)
            /\ UNCHANGED <<exit, env, store, sub, creatorID, feedvars, resp,
                           requests, history>>

\* One turn of updateDatabase's loop in main.go: db.Prepare, parseData and
\* stmt.Exec; a store error is log.Fatalf.
insertOrReplace(j) ==
    /\ alive /\ pc[j] = "insertOrReplace"
    /\ \/ Fatal("failed to prepare statement")
       \/ Fatal("failed to insert game")
       \/ /\ parseData(f[j]).panic
          /\ Fatal("panic: runtime error")
       \/ /\ ~parseData(f[j]).panic
          /\ game' = gameInsertOrReplace(game, parseData(f[j]))
          /\ lastWrite' = [id |-> parseData(f[j]).id, item |-> f[j],
                           old |-> {g \in game : g.id = parseData(f[j]).id}]
          /\ IF eidx[j] < ndata[j]
             THEN ItemLoopHead(j, eidx[j] + 1)
             ELSE /\ pc' = [pc EXCEPT ![j] = "readIDs"]
                  /\ eidx' = [eidx EXCEPT ![j] = 0]
                  /\ f' = [f EXCEPT ![j] = NoEntry]
          /\ UNCHANGED <<exit, env, creator, cover, preview, tags, prefixes,
                         ndata, sub, creatorID, feedvars, resp, counters,
                         written, lastRead>>

\* current_timestamp advances.
Tick ==
    /\ alive /\ clock < MaxClock
    /\ clock' = clock + 1
    /\ UNCHANGED <<exit, tz, store, pc, jobvars, feedvars, resp, counters, history>>

\* ------------------------------------------------------ specifications
JobStep(j) ==
    \/ cronFire(j)
    \/ getData(j)
    \/ insertCreator(j)
    \/ insertGame(j)
    \/ insertCover(j)
    \/ insertPreview(j)
    \/ insertTags(j)
    \/ insertPrefixes(j)

FeedStep(p) ==
    \/ readIDsFromFile(p)
    \/ queryGame(p)
    \/ queryCover(p)

\* A host whose local time is UTC.
InitUTC == Init /\ tz = 0

\* The whole program in one second of the clock: the goroutines of the
\* firings, which may overlap, and the handler's.
Next ==
    \/ \E j \in Jobs : JobStep(j) \/ FeedStep(j)
    \/ \E r \in Reqs : serveFeed(r) \/ FeedStep(r)

Spec == InitUTC /\ [][Next]_vars

\* One firing of the schedule and the handler.
FirstJob == {JobOrder[1]}

NextFeed ==
    \/ \E j \in FirstJob : JobStep(j) \/ FeedStep(j)
    \/ \E r \in Reqs : serveFeed(r) \/ FeedStep(r)

SpecFeed == InitUTC /\ [][NextFeed]_vars

\* One firing of the schedule while the clock advances, on a host of any
\* local-time offset.
NextClock ==
    \/ \E j \in FirstJob : JobStep(j) \/ FeedStep(j)
    \/ Tick

SpecClock == Init /\ [][NextClock]_vars

\* Two firings of the schedule, which may overlap, up to the return of
\* updateDatabase.
NextIngest == \E j \in Jobs : JobStep(j)

SpecIngest == InitUTC /\ [][NextIngest]_vars

\* The handler alone, reading allow-lists of up to MaxFileLines lines.
NextRead ==
    \E r \in Reqs : serveFeed(r) \/ readIDsFrom(r, LongFiles) \/ queryGame(r)

SpecRead == InitUTC /\ [][NextRead]_vars

\* main.go: two firings of the schedule, which may overlap, up to the return
\* of updateDatabase.
NextRSS == \E j \in Jobs : cronFireFeed(j) \/ getFeed(j) \/ insertOrReplace(j)

SpecRSS == InitUTC /\ [][NextRSS]_vars

\* One firing and the handler, every goroutine that can take a step taking
\* one eventually (the Go scheduler runs every runnable goroutine).
SpecLive == InitUTC /\ [][NextFeed]_vars /\ WF_vars(NextFeed)

\* -------------------------------------------------------------- claims
InsertStages ==
    {"insertCreator", "insertGame", "insertCover", "insertPreview",
     "insertTags", "insertPrefixes"}

\* updateDatabase has been called in goroutine j and has not returned.
InUpdateDatabase(j) == pc[j] \in {"getData", "blocked"} \cup InsertStages

\* Every facet of entry e is in the store.
FacetsStored(e) ==
    /\ \E c \in cover : c.url = e.Cover
    /\ \A i \in 1..Len(e.Screens) : \E c \in preview : c.url = e.Screens[i]
    /\ \A i \in 1..Len(e.Tags) : <<e.ThreadID, e.Tags[i]>> \in tags
    /\ \A i \in 1..Len(e.Prefixes) : <<e.ThreadID, e.Prefixes[i]>> \in prefixes

\* Goroutine j has written the game row of its entry and not yet all of the
\* entry's facets.
HalfWritten(j) ==
    /\ pc[j] \in InsertStages \ {"insertCreator", "insertGame"}
    /\ ~FacetsStored(f[j])

\* C1: a reader never sees a half-written record: no game query of a feed
\* build returns the row an ingestion cycle has just written for an entry
\* while facets of that entry are still missing from the store.
C1_RecordAtomic ==
    [][\A p \in Procs :
        (pc[p] = "queryGame" /\ pc'[p] = "queryCover")
        => ~\E j \in Jobs : /\ HalfWritten(j)
                            /\ f[j].ThreadID = row'[p].id
                            /\ f[j].Title = row'[p].title]_vars

\* C2: at most one ingestion cycle is executing at any time: no two
\* goroutines are inside updateDatabase together.
C2_SingleFlight ==
    \A j, k \in Jobs : (InUpdateDatabase(j) /\ InUpdateDatabase(k)) => j = k

\* The log.Fatalf of the statement goroutine j is at.
FailedAt(j) ==
    \/ pc[j] = "insertCreator" /\ exit = "failed to insert creator"
    \/ pc[j] = "insertGame" /\ exit = "failed to insert game"
    \/ pc[j] = "insertCover" /\ exit = "failed to insert cover"
    \/ pc[j] = "insertPreview" /\ exit = "failed to insert preview"
    \/ pc[j] = "insertTags" /\ exit = "failed to insert Tags"
    \/ pc[j] = "insertPrefixes" /\ exit = "failed to insert Prefixes"

\* C3: entry isolation: a cycle never stops at an entry whose store write
\* failed while entries of its snapshot are still to be committed.
C3_EntryIsolation ==
    \A j \in Jobs : FailedAt(j) => eidx[j] = ndata[j]

\* C4: a failed fetch or decode of the source ends only that cycle, never
\* the process.
C4_FetchFailureContained ==
    \A j \in Jobs : pc[j] = "getData" => exit # "getData: Failed to create table"

\* C5: a store failure during a request's feed build never ends the
\* process: the request is answered with a 200 or a 500.
C5_RequestAnswered ==
    \A r \in Reqs :
        pc[r] = "queryCover" => exit # "Failed to get the coverURL: store error"

\* C6: a game row with no cover row is rendered; the lookup of the missing
\* cover never ends the process.
C6_CoverlessRendered ==
    \A p \in Procs :
        (pc[p] = "queryCover" /\ coverRows(cover, row[p].id) = {})
        => exit # "Failed to get the coverURL: no rows"

\* The number of list positions at which request r's build has found a
\* game row.
RowsFound(r) == Len(items[r]) + (IF row[r] # NoRow THEN 1 ELSE 0)

\* The links of the given ids, in order.
Links(list) ==
    [i \in 1..Len(list) |-> "https://f95zone.to/threads/" \o ToString(list[i])]

\* s is t with elements left out.
RECURSIVE IsSubsequence(_, _)
IsSubsequence(s, t) ==
    IF s = << >> THEN TRUE
    ELSE IF t = << >> THEN FALSE
    ELSE IF Head(s) = Head(t) THEN IsSubsequence(Tail(s), Tail(t))
    ELSE IsSubsequence(s, Tail(t))

\* C7: the build yields one item per list position whose id has a game
\* row, in list order: the items follow the order of the list, and when the
\* build is over, by its return or by the lookup of a missing cover ending
\* the process, every position at which a game row was found has its item.
C7_ItemPerRow ==
    \A r \in Reqs :
        /\ IsSubsequence([i \in 1..Len(items[r]) |-> items[r][i].Link],
                         Links(ids[r]))
        /\ (pc[r] = "idle" \/ exit = "Failed to get the coverURL: no rows")
           => Len(items[r]) = RowsFound(r)

\* The rendering of a committed write w = <<id, title, version>>.
Rendering(w) ==
    [Title |-> w[2] \o " [" \o w[3] \o "]",
     Link |-> "https://f95zone.to/threads/" \o ToString(w[1])]

\* C8: every feed item carries the title and the version of one single
\* committed write of its game.
C8_ItemOfOneWrite ==
    \A p \in Procs : \A i \in 1..Len(items[p]) :
        \E w \in written :
            /\ items[p][i].Title = Rendering(w).Title
            /\ items[p][i].Link = Rendering(w).Link

\* A request was answered, during a cycle that has just overwritten game 1
\* and is still writing that entry's facets, with the item of the new row.
C8_Witness ==
    \E r \in Reqs : \E j \in Jobs :
        /\ resp[r] # << >> /\ pc[r] = "idle" /\ Len(items[r]) = 1
        /\ items[r][1].Title = "B [2]"
        /\ items[r][1].Link = "https://f95zone.to/threads/1"
        /\ <<1, "A", "1">> \in written
        /\ pc[j] = "insertPreview" /\ f[j].ThreadID = 1 /\ eidx[j] = 2

\* The last insertGame wrote the record its row already held.
SameRecordAgain ==
    /\ lastWrite # NoWrite
    /\ \E o \in lastWrite.old :
        /\ o.title = lastWrite.title
        /\ o.version = lastWrite.version
        /\ o.creator_id = lastWrite.creator_id

\* C9: upserting the same record twice leaves exactly one game row for the
\* id, with the fields of the second write and updated at its time.
C9_UpsertIdempotent ==
    SameRecordAgain =>
        /\ Cardinality({g \in game : g.id = lastWrite.id}) = 1
        /\ \A g \in game :
            g.id = lastWrite.id =>
                /\ g.title = lastWrite.title
                /\ g.version = lastWrite.version
                /\ g.creator_id = lastWrite.creator_id
                /\ g.updated = lastWrite.at

\* The same record was upserted again at a later second than the row held.
C9_Witness ==
    /\ SameRecordAgain
    /\ \E o \in lastWrite.old : o.updated < lastWrite.at

\* C10: updated never moves backwards: after an upsert the row's updated is
\* no earlier than the value the row held before it.
C10_UpdatedMonotonic ==
    lastWrite # NoWrite =>
        \A o \in lastWrite.old : \A g \in game :
            g.id = lastWrite.id => g.updated >= o.updated

\* C11: every ingestion cycle eventually ends: a goroutine the schedule has
\* started reaches the end of its function, or the process has exited.
C11_CycleEnds ==
    \A j \in Jobs : (pc[j] = "getData") ~> (pc[j] = "done" \/ exit # "")

\* The ids of the game rows.
GameIDs(tbl) == {g.id : g \in tbl}

\* C12: stored rows are never removed: every step keeps a game row for
\* every stored id and keeps every creator, cover, preview, tag membership
\* and prefix membership row, whatever the cycle omits and wherever it ends.
C12_NoDeletion ==
    [][/\ GameIDs(game) \subseteq GameIDs(game')
       /\ creator \subseteq creator'
       /\ cover \subseteq cover'
       /\ preview \subseteq preview'
       /\ tags \subseteq tags'
       /\ prefixes \subseteq prefixes']_vars

\* A cycle wrote game 1 with previews, tags and prefixes, a later cycle
\* wrote it again from an entry that has none of them and carries another
\* cover, and that cycle ended part-way, at the write of its cover.
C12_Witness ==
    /\ exit = "failed to insert cover"
    /\ pc["job1"] = "readIDs" /\ pc["job2"] = "insertCover"
    /\ f["job2"].ThreadID = 1 /\ f["job2"].Title = "A"
    /\ \E g \in game : g.id = 1 /\ g.title = "A"
    /\ <<1, "B", "2">> \in written
    /\ \E c \in cover : c.url = "v" /\ c.game_id = 1
    /\ \E c \in preview : c.url = "s" /\ c.game_id = 1
    /\ <<1, 7>> \in tags /\ <<1, 3>> \in prefixes

\* Goroutine j holds the id its insertCreator returned for its entry.
HoldsCreatorID(j) == pc[j] \in InsertStages \ {"insertCreator"}

\* C13: creator get-or-create: there is one creator row per name and one
\* name per id, and the id an insertCreator call returned is the id of the
\* row of its name, so that calls with one name return one id, racing or not.
C13_CreatorGetOrCreate ==
    /\ \A c, d \in creator : (c.name = d.name \/ c.id = d.id) => c = d
    /\ \A j \in Jobs :
        HoldsCreatorID(j) =>
            \E c \in creator : c.name = f[j].Creator /\ c.id = creatorID[j]
    /\ \A j, k \in Jobs :
        (HoldsCreatorID(j) /\ HoldsCreatorID(k) /\ f[j].Creator = f[k].Creator)
            => creatorID[j] = creatorID[k]

\* Two overlapping cycles have both called insertCreator for a name that
\* was not stored before, and both hold the id of its one row.
C13_Witness ==
    /\ pc["job1"] = "insertGame" /\ pc["job2"] = "insertGame"
    /\ eidx["job1"] = 1 /\ eidx["job2"] = 1
    /\ f["job1"].Creator = "x" /\ f["job2"].Creator = "x"
    /\ creatorID["job1"] = creatorID["job2"]
    /\ Cardinality(creator) = 1

\* C19: referential integrity in every state: every cover, preview, tag
\* membership and prefix membership row names the id of a game row, and every
\* game row's creator_id is the id of a creator row.
C19_ReferentialIntegrity ==
    /\ \A c \in cover \cup preview : c.game_id \in GameIDs(game)
    /\ \A t \in tags \cup prefixes : t[1] \in GameIDs(game)
    /\ \A g \in game : \E c \in creator : c.id = g.creator_id

\* A cycle was ended by a failed write between the preview and the tags of
\* an entry while another cycle is between a game row and its cover.
C19_Witness ==
    /\ exit = "failed to insert Tags"
    /\ preview # {} /\ tags = {}
    /\ \E j \in Jobs : pc[j] = "insertCover" /\ f[j].Cover \notin {c.url : c \in cover}

\* The positions of a goroutine inside the feed build.
FeedStages == {"readIDs", "queryGame", "queryCover"}

\* The log.Fatalf messages of fetchDataFromDB.
FeedFatals ==
    {"Failed to get the coverURL: store error",
     "Failed to get the coverURL: no rows"}

\* C14: the feed build never mutates the store: every step of a feed
\* build, one that goes on, one that returns and one that ends the process,
\* leaves all six tables as they were.
C14_BuildReadOnly ==
    [][(\/ \E p \in Procs : /\ pc[p] \in FeedStages
                             /\ (pc'[p] # pc[p] \/ iidx'[p] # iidx[p])
        \/ exit' # exit /\ exit' \in FeedFatals)
       => store' = store]_vars

\* A request was answered with the item of a stored game.
C14_Witness ==
    \E r \in Reqs :
        /\ resp[r] = <<200>> /\ Len(items[r]) = 1
        /\ game # {} /\ cover # {}

\* The urls of a url table.
URLs(tbl) == {c.url : c \in tbl}

\* C16: cover and preview urls are unique over the whole store, and an
\* insert of a stored url is ignored: after every step no two cover rows and
\* no two preview rows share a url, and the row that held a url before the
\* step is the row that holds it after, with the game it belonged to.
C16_UrlUniqueIdempotent ==
    [][/\ \A c, d \in cover' : c.url = d.url => c = d
       /\ \A c, d \in preview' : c.url = d.url => c = d
       /\ \A c \in cover' : c.url \in URLs(cover) => c \in cover
       /\ \A c \in preview' : c.url \in URLs(preview) => c \in preview]_vars

\* Cover u and preview s were stored for game 1; insertCover and
\* insertPreview have then been called with them for game 2.
C16_Witness ==
    /\ \E j \in Jobs : pc[j] = "insertTags" /\ f[j].ThreadID = 2
                        /\ f[j].Cover = "v" /\ f[j].Screens = <<"s">>
    /\ \E c \in cover : c.url = "v" /\ c.game_id = 1
    /\ \E c \in preview : c.url = "s" /\ c.game_id = 1
    /\ Cardinality(cover) = 1 /\ Cardinality(preview) = 1

\* C18: once the ingestion cycles have completed, the cover url the build
\* looks up for a game is the cover url of the most recently ingested entry
\* of that game.
C18_CoverOfLatestEntry ==
    \A p \in Procs :
        (/\ alive /\ pc[p] = "queryCover"
         /\ \A j \in Jobs : ~InUpdateDatabase(j)
         /\ row[p].id = lastWrite.id)
        => /\ coverRows(cover, row[p].id) # {}
           /\ coverQuery(cover, row[p].id) = lastWrite.cover

\* A line that is not blank after trimming.
NonBlank(line) == TrimSpace(line) # << >>

\* A line that is an integer after trimming.
IsInteger(line) == Atoi(TrimSpace(line)).ok

\* The non-blank lines of a file, in file order.
NonBlankLines(file) == SelectSeq(file, NonBlank)

\* C17: readIDsFromFile returns the integers of the non-blank lines in file
\* order, one id per non-blank line; when the file cannot be opened or a
\* non-blank line is not an integer it returns an error and no ids.
C17_ReadIDs ==
    lastRead.called =>
        LET lines == NonBlankLines(lastRead.lines) IN
        IF lastRead.opened /\ \A i \in 1..Len(lines) : IsInteger(lines[i])
        THEN /\ ~lastRead.err
             /\ Len(lastRead.ids) = Len(lines)
             /\ \A i \in 1..Len(lines) :
                    lastRead.ids[i] = Atoi(TrimSpace(lines[i])).n
        ELSE lastRead.err /\ lastRead.ids = << >>

\* A file with a duplicated id around a blank line was read, and one with
\* an integer before a line that is none.
C17_Witness ==
    /\ lastRead.called /\ lastRead.opened
    /\ \/ lastRead.lines = << <<"1">>, << >>, <<"1">> >> /\ lastRead.ids = <<1, 1>>
       \/ lastRead.lines = << <<"1">>, <<"x">> >> /\ lastRead.err

\* C15: no game row is written under an id that is not the numeric id of
\* the entry it came from: the last segment of the link of the item a write
\* came from is a number, and the write is under that number.
C15_IdOfEntry ==
    lastWrite # NoWrite
        => /\ Atoi(PathBase(lastWrite.item.Link.path)).ok
           /\ lastWrite.id = Atoi(PathBase(lastWrite.item.Link.path)).n

====
